---- MODULE Spec2Model ----
(***************************************************************************)
(* Model of the SSM command dispatch-and-poll engine of the provider:      *)
(* internal/ssm/send_command_resource.go (PollCommandInvocation,           *)
(* getActualCommandStatus, executeSSMCommand, Create, Update) which        *)
(* internal/ssm/send_files_resource.go repeats line for line in its own    *)
(* executeSSMCommand.                                                      *)
(*                                                                         *)
(* Time is counted in whole seconds since the context with the 5 minute    *)
(* timeout was created.  A target is identified by its position in the     *)
(* list of invocations, a plugin by its position in the invocation.        *)
(***************************************************************************)
EXTENDS Integers, Sequences, FiniteSets, TLC

\* ---------------------------------------------------------------- bounds
MaxRecords == 3      \* status records (invocations and their plugins together)
                     \* in one ListCommandInvocations answer
MaxCommands == 1     \* SendCommand calls in one behaviour
SlowQuery == 239     \* seconds a slow ListCommandInvocations call takes
MaxIds == 2          \* instance ids in instance_ids
MaxBlocks == 1       \* targets blocks in a configuration
MaxApiCalls == 6     \* AWS API calls one handler of test_ssm_activation makes
MaxActivations == 2  \* CreateActivation calls that succeed in one behaviour
MaxEnvVars == 2      \* environment variables of a codebuild_start_build

\* ------------------------------------------------------ program constants
maxAttempts == 10
createTimeout == 300
InitialBackoff == 1
MaxBackoff == 30

\* ssmtypes.CommandInvocationStatus and ssmtypes.CommandPluginStatus
InvocationStatuses ==
    {"Pending", "InProgress", "Delayed", "Cancelling",
     "Success", "Failed", "TimedOut", "Cancelled"}
PluginStatuses ==
    {"Pending", "InProgress", "Success", "TimedOut", "Cancelled", "Failed"}

InProgressStatuses == {"Pending", "InProgress", "Delayed", "Cancelling"}
FailedStatuses == {"Failed", "TimedOut", "Cancelled"}
InProgressPluginStatuses == {"InProgress", "Pending"}

\* ------------------------------------------------------------- responses
\* the sequences of exactly k plugin statuses
RECURSIVE PluginSeqs(_)
PluginSeqs(k) ==
    IF k = 0 THEN {<<>>}
    ELSE {<<p>> \o ps : p \in PluginStatuses, ps \in PluginSeqs(k - 1)}

\* the lists of invocations that hold exactly m status records: the first
\* invocation with its k plugins, then a list of m - 1 - k records
RECURSIVE InvocationListsOf(_)
InvocationListsOf(m) ==
    IF m = 0 THEN {<<>>}
    ELSE UNION {
        {<<[status |-> s, plugins |-> ps]>> \o rest :
            s \in InvocationStatuses, ps \in PluginSeqs(k),
            rest \in InvocationListsOf(m - 1 - k)} : k \in 0..(m - 1)}

InvocationLists == UNION {InvocationListsOf(m) : m \in 0..MaxRecords}

\* the answers of ListCommandInvocations: an error, or a list of invocations
QueryError == [err |-> TRUE, invocations |-> <<>>]
Responses ==
    {QueryError} \cup {[err |-> FALSE, invocations |-> invs] : invs \in InvocationLists}

QueryDurations == {0, SlowQuery}

\* ----------------------------------------------------------- diagnostics
Diag(sev, summary, instance, plugin) ==
    [severity |-> sev, summary |-> summary, instance |-> instance, plugin |-> plugin]

HasError(diags) == \E i \in 1..Len(diags) : diags[i].severity = "error"
WarningsCount(diags) == Cardinality({i \in 1..Len(diags) : diags[i].severity = "warning"})

\* ------------------------------------------------- PollCommandInvocation
\* body of the loop over invocation.CommandPlugins, from plugin j on
RECURSIVE PluginDiags(_, _, _)
PluginDiags(plugins, i, j) ==
    IF j > Len(plugins) THEN <<>>
    ELSE (IF plugins[j] \in InProgressPluginStatuses THEN <<>>
          ELSE IF plugins[j] # "Success"
               THEN <<Diag("error", "Plugin failed", i, j)>>
               ELSE <<>>)
         \o PluginDiags(plugins, i, j + 1)

\* diagnostics added by one iteration of the loop over the invocations
InvocationDiags(inv, i) ==
    (IF inv.status \in InProgressStatuses
     THEN <<Diag("warning", "Command Invocation In Progress", i, 0)>>
     ELSE <<>>)
    \o (IF inv.status \in FailedStatuses
        THEN <<Diag("error", "Command Invocation Failed", i, 0)>>
        ELSE <<>>)
    \o PluginDiags(inv.plugins, i, 1)

RECURSIVE AllInvocationDiags(_, _)
AllInvocationDiags(invs, i) ==
    IF i > Len(invs) THEN <<>>
    ELSE InvocationDiags(invs[i], i) \o AllInvocationDiags(invs, i + 1)

\* the flag hasErrors after the loop
hasErrors(invs) ==
    \E i \in 1..Len(invs) :
        \/ invs[i].status \in FailedStatuses
        \/ \E j \in 1..Len(invs[i].plugins) :
              /\ invs[i].plugins[j] \notin InProgressPluginStatuses
              /\ invs[i].plugins[j] # "Success"

\* the flag allCompleted after the loop
allCompleted(invs) ==
    \A i \in 1..Len(invs) :
        /\ invs[i].status \notin InProgressStatuses
        /\ \A j \in 1..Len(invs[i].plugins) :
              invs[i].plugins[j] \notin InProgressPluginStatuses

\* a variant of PollCommandInvocation in which a target still in progress
\* hides the failures: only the warnings are returned
PollCommandInvocation_InProgressFirst(resp) ==
    IF resp.err THEN <<Diag("error", "AWS Client Error", 0, 0)>>
    ELSE IF Len(resp.invocations) = 0
    THEN <<Diag("warning", "Command Invocations Not Found", 0, 0)>>
    ELSE IF ~allCompleted(resp.invocations)
    THEN SelectSeq(AllInvocationDiags(resp.invocations, 1),
                   LAMBDA d : d.severity = "warning")
    ELSE IF hasErrors(resp.invocations) THEN AllInvocationDiags(resp.invocations, 1)
    ELSE <<>>
\* a variant of PollCommandInvocation in which an empty list is an error
PollCommandInvocation_NotFoundIsError(resp) ==
    IF resp.err THEN <<Diag("error", "AWS Client Error", 0, 0)>>
    ELSE IF Len(resp.invocations) = 0
    THEN <<Diag("error", "Command Invocations Not Found", 0, 0)>>
    ELSE IF hasErrors(resp.invocations) THEN AllInvocationDiags(resp.invocations, 1)
    ELSE IF ~allCompleted(resp.invocations) THEN AllInvocationDiags(resp.invocations, 1)
    ELSE <<>>
\* the diagnostics PollCommandInvocation returns for an answer of the API
PollCommandInvocation(resp) ==
    IF resp.err THEN <<Diag("error", "AWS Client Error", 0, 0)>>
    ELSE IF Len(resp.invocations) = 0
    THEN <<Diag("warning", "Command Invocations Not Found", 0, 0)>>
    ELSE IF hasErrors(resp.invocations) THEN AllInvocationDiags(resp.invocations, 1)
    ELSE IF ~allCompleted(resp.invocations) THEN AllInvocationDiags(resp.invocations, 1)
    ELSE <<>>

\* ------------------------------------------------ getActualCommandStatus
\* a variant of InvocationStatusResult that returns the status as it is when
\* no case of the switch matches
InvocationStatusResult_RawDefault(inv) ==
    IF \E j \in 1..Len(inv.plugins) : inv.plugins[j] # "Success" THEN "Failed"
    ELSE inv.status
\* a variant of InvocationStatusResult with the test of the plugins inverted
InvocationStatusResult_PluginTestInverted(inv) ==
    IF \E j \in 1..Len(inv.plugins) : inv.plugins[j] = "Success" THEN "Failed"
    ELSE CASE inv.status = "Success" -> "Success"
           [] inv.status = "Failed" -> "Failed"
           [] inv.status = "TimedOut" -> "TimedOut"
           [] inv.status = "Cancelled" -> "Cancelled"
           [] OTHER -> "Unknown"
\* one iteration of the loop over the invocations: every path returns
InvocationStatusResult(inv) ==
    IF \E j \in 1..Len(inv.plugins) : inv.plugins[j] # "Success" THEN "Failed"
    ELSE CASE inv.status = "Success" -> "Success"
           [] inv.status = "Failed" -> "Failed"
           [] inv.status = "TimedOut" -> "TimedOut"
           [] inv.status = "Cancelled" -> "Cancelled"
           [] OTHER -> "Unknown"

\* a variant of getActualCommandStatus in which a failed query gives Failed
getActualCommandStatus_ErrorIsFailed(resp) ==
    IF resp.err THEN "Failed"
    ELSE IF Len(resp.invocations) = 0 THEN "Unknown"
    ELSE InvocationStatusResult(resp.invocations[1])
getActualCommandStatus(resp) ==
    IF resp.err THEN "Unknown"
    ELSE IF Len(resp.invocations) = 0 THEN "Unknown"
    ELSE InvocationStatusResult(resp.invocations[1])

FinalStatuses == {"Success", "Failed", "TimedOut", "Cancelled", "Unknown"}

\* --------------------------------------------------- what a query shows
\* The state keeps of an answer what the specification's vocabulary says of
\* it: per target the class of its coarse status, and per plugin the class of
\* its status.
StatusClass(s) ==
    IF s \in {"Pending", "InProgress", "Delayed", "Cancelling"} THEN "in-progress"
    ELSE IF s \in {"Failed", "TimedOut", "Cancelled"} THEN "terminal-failure"
    ELSE "success"

PluginClass(p) ==
    IF p = "Success" THEN "success"
    ELSE IF p \in {"InProgress", "Pending"} THEN "in-progress"
    ELSE "failure"

Observe(resp) ==
    [kind |-> IF resp.err THEN "error" ELSE "list",
     invocations |->
        [i \in 1..Len(resp.invocations) |->
            [status |-> StatusClass(resp.invocations[i].status),
             plugins |-> [j \in 1..Len(resp.invocations[i].plugins) |->
                             PluginClass(resp.invocations[i].plugins[j])]]]]

NoObservation == [kind |-> "none", invocations |-> <<>>]

\* every answer the API can give to the Poller, with what PollCommandInvocation
\* makes of it, and to the Status Resolver, with what getActualCommandStatus
\* makes of it
PollOutcomes ==
    {[observed |-> Observe(r), diag |-> PollCommandInvocation(r)] : r \in Responses}

ResolveOutcomes ==
    {[observed |-> Observe(r), status |-> getActualCommandStatus(r)] : r \in Responses}

\* ------------------------------------------------------------------ state
VARIABLES
    pc,           \* "idle", or the position inside executeSSMCommand:
                  \* "loop" (head of the for loop), "sleeping" (the select),
                  \* "resolve" (clean poll, before getActualCommandStatus),
                  \* "returned" (executeSSMCommand has returned)
    op,           \* the resource operation running or last run
    state,        \* the persisted Terraform state of the resource
    opError,      \* resp.Diagnostics.HasError() of the operation last run
    data,         \* the model executeSSMCommand fills in: command_id, status
    diagnostics,  \* the diagnostics executeSSMCommand returns
    attempt,      \* loop variable of the polling loop
    backoff,      \* current backoff delay, in seconds
    elapsed,      \* seconds since context.WithTimeout
    cancelled,    \* the parent context was cancelled
    attemptDiag,  \* result of PollCommandInvocation in the current iteration
    observed,     \* what the last ListCommandInvocations call of the cycle showed
    queryLog,     \* the status queries of this cycle, in order
    delays,       \* the backoff sleeps of this cycle that ran to their end
    sendCalls,    \* SendCommand calls of the operation running or last run
    commands,     \* SendCommand calls of the whole behaviour
    answer,       \* the answer of the API a function is applied to on its own
    result,       \* what the function made of it, "none" before it is applied
    config,       \* the target configuration validateAndBuildTargets is applied
                  \* to on its own
    built,        \* what validateAndBuildTargets returned for it
    expirationDate, \* the expiration_date block validateExpirationDate is
                  \* applied to on its own
    validation,   \* the diagnostics validateExpirationDate returned for it
    secretExists, \* the secret named by secret_name exists in Secrets Manager
    activation,   \* the SSM activation of the resource: "none", "active", "expired"
    activationState, \* the persisted Terraform state of test_ssm_activation
    apiCalls,     \* the AWS API calls of the activation operation last run
    activationOp, \* the activation operation last run, and how it ended
    managedSeen,  \* some operation so far had managed = true in plan or state
    secretCalls,  \* the Secrets Manager write calls of the whole behaviour
    secretValue,  \* the activation whose id and code the secret holds, 0 if none
    activations,  \* the CreateActivation calls that succeeded so far
    buildState,   \* the persisted Terraform state of codebuild_start_build
    buildOp,      \* the codebuild_start_build operation last run
    buildCalls,   \* the AWS API calls of that operation, in order
    buildDiags    \* the diagnostics of that operation

vars == <<pc, op, state, opError, data, diagnostics, attempt, backoff, elapsed,
          cancelled, attemptDiag, observed, queryLog, delays, sendCalls, commands,
          answer, result, config, built, expirationDate, validation,
          secretExists, activation, activationState, apiCalls, activationOp,
          managedSeen, secretCalls, secretValue, activations, buildState,
          buildOp, buildCalls, buildDiags>>

\* the variables of test_ssm_activation
activationVars == <<secretExists, activation, activationState, apiCalls,
                    activationOp, managedSeen, secretCalls, secretValue,
                    activations>>

\* the variables of codebuild_start_build
buildVars == <<buildState, buildOp, buildCalls, buildDiags>>

\* the variables of the specifications that apply one function on its own, and
\* those of the other resources
pureVars == <<answer, result, config, built, expirationDate, validation,
              activationVars, buildVars>>

\* the variables of test_ssm_send_command
sendCommandVars == <<pc, op, state, opError, data, diagnostics, attempt, backoff,
                     elapsed, cancelled, attemptDiag, observed, queryLog, delays,
                     sendCalls, commands>>

cycleVars == <<attempt, backoff, elapsed, cancelled, attemptDiag, observed,
               queryLog, delays>>

Triggers == {1, 2}

NoState == [exists |-> FALSE, command_id |-> 0, status |-> "", triggers |-> 1]
\* the state left by an earlier apply whose command 1 succeeded
PriorState == [exists |-> TRUE, command_id |-> 1, status |-> "Success", triggers |-> 1]

\* no configuration, and validateAndBuildTargets not applied yet
NoConfig == [null |-> TRUE, instance_ids |-> <<>>, targets |-> <<>>]
NotBuilt == [done |-> FALSE, ok |-> FALSE, targets |-> <<>>]

\* no expiration_date block (a nil pointer), and validateExpirationDate not
\* applied yet
NoExpirationDate == [present |-> FALSE]
NotValidated == [done |-> FALSE, diags |-> <<>>]

\* test_ssm_activation before anything was applied
NoActivationState == [exists |-> FALSE, managed |-> FALSE, activation_id |-> 0,
                      activation_code |-> 0, expired |-> FALSE]
NoActivationOp == [name |-> "none", managed |-> FALSE, managedBefore |-> FALSE,
                   changed |-> FALSE, secretBefore |-> FALSE,
                   activationBefore |-> "none", created |-> 0, error |-> FALSE,
                   invalid |-> FALSE]

\* codebuild_start_build before anything was applied
NoBuildState == [exists |-> FALSE, triggers |-> 1]
NoBuildOp == [name |-> "none", envVars |-> <<>>, failing |-> {},
              triggersChanged |-> FALSE, prior |-> NoBuildState, error |-> FALSE]

InitBuild ==
    /\ buildState = NoBuildState
    /\ buildOp = NoBuildOp
    /\ buildCalls = <<>>
    /\ buildDiags = <<>>

InitActivation ==
    /\ activation = "none"
    /\ activationState = NoActivationState
    /\ apiCalls = <<>>
    /\ activationOp = NoActivationOp
    /\ managedSeen = FALSE
    /\ secretCalls = {}
    /\ secretValue = 0
    /\ activations = 0

\* the id SendCommand returns at its n-th call of the behaviour
CommandIdOf(n) == n + 1

PollQueries == Cardinality({i \in 1..Len(queryLog) : queryLog[i] = "poll"})
ResolverQueries == Cardinality({i \in 1..Len(queryLog) : queryLog[i] = "resolve"})

\* ctx.Err() of the context with the timeout
ctxErr ==
    IF cancelled THEN "Canceled"
    ELSE IF elapsed >= createTimeout THEN "DeadlineExceeded"
    ELSE "nil"

\* everything but the persisted state and the variables of the functions
\* applied on their own
InitCycle ==
    /\ pc = "idle"
    /\ op = "none"
    /\ opError = FALSE
    /\ data = [command_id |-> 0, status |-> "", triggers |-> 1]
    /\ diagnostics = <<>>
    /\ attempt = 0
    /\ backoff = InitialBackoff
    /\ elapsed = 0
    /\ cancelled = FALSE
    /\ attemptDiag = <<>>
    /\ observed = NoObservation
    /\ queryLog = <<>>
    /\ delays = <<>>
    /\ sendCalls = 0
    /\ commands = 0

Init ==
    /\ InitCycle
    /\ state \in {NoState, PriorState}
    /\ answer = QueryError
    /\ result = "none"
    /\ config = NoConfig
    /\ built = NotBuilt
    /\ expirationDate = NoExpirationDate
    /\ validation = NotValidated
    /\ secretExists = FALSE
    /\ InitActivation
    /\ InitBuild

\* ------------------------------------------------ validateAndBuildTargets
\* instance_ids is null, an empty list or a non-empty list; targets is the
\* number of targets blocks
TargetConfigs ==
    {[instance_ids |-> i, targets |-> t] : i \in {"null", "empty", "set"}, t \in 0..1}

\* a variant of validateAndBuildTargets that tests instance_ids for a
\* non-empty list
validateAndBuildTargets_NonEmpty(cfg) ==
    LET hasInstanceIds == cfg.instance_ids = "set"
        hasTargets == cfg.targets > 0
    IN  IF ~hasInstanceIds /\ ~hasTargets THEN FALSE
        ELSE IF hasInstanceIds /\ hasTargets THEN FALSE
        ELSE TRUE
validateAndBuildTargets(cfg) ==
    LET hasInstanceIds == cfg.instance_ids # "null"
        hasTargets == cfg.targets > 0
    IN  IF ~hasInstanceIds /\ ~hasTargets THEN FALSE
        ELSE IF hasInstanceIds /\ hasTargets THEN FALSE
        ELSE TRUE

\* the configurations in full: instance_ids is null or a list of ids, targets
\* is a list of blocks with a key and a list of values
InstanceIdValues == {"i-1", "i-2"}
TargetKeys == {"InstanceIds", "tag:Name"}

RECURSIVE IdLists(_)
IdLists(n) ==
    IF n = 0 THEN {<<>>}
    ELSE IdLists(n - 1) \cup
         {<<v>> \o l : v \in InstanceIdValues, l \in {x \in IdLists(n - 1) : Len(x) = n - 1}}

TargetBlocks == {[key |-> k, values |-> v] : k \in TargetKeys, v \in IdLists(1)}

RECURSIVE BlockLists(_)
BlockLists(n) ==
    IF n = 0 THEN {<<>>}
    ELSE BlockLists(n - 1) \cup
         {<<b>> \o l : b \in TargetBlocks, l \in {x \in BlockLists(n - 1) : Len(x) = n - 1}}

FullConfigs ==
    {[null |-> TRUE, instance_ids |-> <<>>, targets |-> ts] : ts \in BlockLists(MaxBlocks)}
    \cup {[null |-> FALSE, instance_ids |-> ids, targets |-> ts] :
             ids \in IdLists(MaxIds), ts \in BlockLists(MaxBlocks)}

\* what validateAndBuildTargets tests of a configuration
ConfigShape(c) ==
    [instance_ids |-> IF c.null THEN "null"
                      ELSE IF Len(c.instance_ids) = 0 THEN "empty" ELSE "set",
     targets |-> Len(c.targets)]

\* the targets validateAndBuildTargets builds once the validation has passed
BuildTargets(c) ==
    IF ~c.null
    THEN <<[key |-> "InstanceIds", values |-> c.instance_ids]>>
    ELSE [i \in 1..Len(c.targets) |->
             [key |-> c.targets[i].key, values |-> c.targets[i].values]]

\* ------------------------------------------------------ executeSSMCommand
\* a variant of FailOperation in which the call of SendCommand has been made
\* in any case
FailOperation_AfterSend(name, trig, calls) ==
    /\ op' = name
    /\ opError' = TRUE
    /\ sendCalls' = 1
    /\ commands' = commands + 1
    /\ pc' = "idle"
    /\ diagnostics' = IF calls = 0
                      THEN <<Diag("error", "Validation Error", 0, 0)>>
                      ELSE <<Diag("error", "Client Error", 0, 0)>>
    /\ data' = [command_id |-> 0, status |-> "", triggers |-> trig]
    /\ attempt' = 0
    /\ backoff' = InitialBackoff
    /\ elapsed' = 0
    /\ cancelled' = FALSE
    /\ attemptDiag' = <<>>
    /\ observed' = NoObservation
    /\ queryLog' = <<>>
    /\ delays' = <<>>
    /\ UNCHANGED <<state, pureVars>>
\* a variant of FailOperation that sets the state before it returns
FailOperation_SetsState(name, trig, calls) ==
    /\ op' = name
    /\ opError' = TRUE
    /\ sendCalls' = calls
    /\ commands' = commands + calls
    /\ pc' = "idle"
    /\ diagnostics' = IF calls = 0
                      THEN <<Diag("error", "Validation Error", 0, 0)>>
                      ELSE <<Diag("error", "Client Error", 0, 0)>>
    /\ data' = [command_id |-> 0, status |-> "", triggers |-> trig]
    /\ attempt' = 0
    /\ backoff' = InitialBackoff
    /\ elapsed' = 0
    /\ cancelled' = FALSE
    /\ attemptDiag' = <<>>
    /\ observed' = NoObservation
    /\ queryLog' = <<>>
    /\ delays' = <<>>
    /\ state' = [exists |-> TRUE, command_id |-> 0, status |-> "", triggers |-> trig]
    /\ UNCHANGED pureVars
\* an operation that ends before SendCommand (calls = 0, the error of the
\* validation) or on its error (calls = 1): nothing is persisted, `data`
\* keeps the plan
FailOperation(name, trig, calls) ==
    /\ op' = name
    /\ opError' = TRUE
    /\ sendCalls' = calls
    /\ commands' = commands + calls
    /\ pc' = "idle"
    /\ diagnostics' = IF calls = 0
                      THEN <<Diag("error", "Validation Error", 0, 0)>>
                      ELSE <<Diag("error", "Client Error", 0, 0)>>
    /\ data' = [command_id |-> 0, status |-> "", triggers |-> trig]
    /\ attempt' = 0
    /\ backoff' = InitialBackoff
    /\ elapsed' = 0
    /\ cancelled' = FALSE
    /\ attemptDiag' = <<>>
    /\ observed' = NoObservation
    /\ queryLog' = <<>>
    /\ delays' = <<>>
    /\ UNCHANGED <<state, pureVars>>

\* validation, then the head of executeSSMCommand up to the polling loop
StartOperation(name, cfg, trig, sendOk) ==
    IF ~validateAndBuildTargets(cfg) THEN FailOperation(name, trig, 0)
    ELSE /\ commands < MaxCommands
         /\ IF ~sendOk THEN FailOperation(name, trig, 1)
            ELSE /\ op' = name
                 /\ opError' = FALSE
                 /\ sendCalls' = 1
                 /\ commands' = commands + 1
                 /\ data' = [command_id |-> CommandIdOf(commands + 1),
                             status |-> "InProgress", triggers |-> trig]
                 /\ diagnostics' = <<>>
                 /\ attempt' = 0
                 /\ backoff' = InitialBackoff
                 /\ elapsed' = 0
                 /\ cancelled' = FALSE
                 /\ attemptDiag' = <<>>
                 /\ observed' = NoObservation
                 /\ queryLog' = <<>>
                 /\ delays' = <<>>
                 /\ pc' = "loop"
                 /\ UNCHANGED <<state, pureVars>>

Create ==
    /\ pc = "idle"
    /\ ~state.exists
    /\ \E cfg \in TargetConfigs, trig \in Triggers, sendOk \in BOOLEAN :
          StartOperation("Create", cfg, trig, sendOk)

\* a variant of UpdateKeep that does not take the computed values from the
\* prior state: they are set to the empty string
UpdateKeep_LosesComputed(trig) ==
    /\ op' = "Update"
    /\ opError' = FALSE
    /\ sendCalls' = 0
    /\ data' = [command_id |-> 0, status |-> "", triggers |-> trig]
    /\ state' = [exists |-> TRUE, command_id |-> 0, status |-> "", triggers |-> trig]
    /\ diagnostics' = <<>>
    /\ attempt' = 0
    /\ backoff' = InitialBackoff
    /\ elapsed' = 0
    /\ cancelled' = FALSE
    /\ attemptDiag' = <<>>
    /\ observed' = NoObservation
    /\ queryLog' = <<>>
    /\ delays' = <<>>
    /\ UNCHANGED <<pc, commands, pureVars>>
\* Update without a change of the triggers: the computed values are kept
UpdateKeep(trig) ==
    /\ op' = "Update"
    /\ opError' = FALSE
    /\ sendCalls' = 0
    /\ data' = [command_id |-> state.command_id, status |-> state.status,
                triggers |-> trig]
    /\ state' = [exists |-> TRUE, command_id |-> state.command_id,
                 status |-> state.status, triggers |-> trig]
    /\ diagnostics' = <<>>
    /\ attempt' = 0
    /\ backoff' = InitialBackoff
    /\ elapsed' = 0
    /\ cancelled' = FALSE
    /\ attemptDiag' = <<>>
    /\ observed' = NoObservation
    /\ queryLog' = <<>>
    /\ delays' = <<>>
    /\ UNCHANGED <<pc, commands, pureVars>>

Update ==
    /\ pc = "idle"
    /\ state.exists
    /\ \E cfg \in TargetConfigs, trig \in Triggers, sendOk \in BOOLEAN :
          IF trig # state.triggers
          THEN StartOperation("Update", cfg, trig, sendOk)
          ELSE UpdateKeep(trig)

\* a ListCommandInvocations call that starts now and takes d seconds fails
\* when the context is done before the answer arrives
QueryFails(d) == ctxErr # "nil" \/ elapsed + d > createTimeout

QueryEnd(d) ==
    IF ctxErr # "nil" THEN elapsed
    ELSE IF elapsed + d > createTimeout THEN createTimeout
    ELSE elapsed + d

\* a variant of ReturnedOnFailure that hands the attempt's diagnostics on
ReturnedOnFailure_WithAttemptDiag(diags, diag) == diags \o diag
\* what executeSSMCommand returns when the attempt's diagnostics hold an
\* error: its own diagnostics, to which the attempt's were never appended
ReturnedOnFailure(diags, diag) == diags

\* a variant of AttemptBranch without the branch on the errors
AttemptBranch_ErrorsFallThrough(diag) ==
    IF WarningsCount(diag) > 0 THEN "sleeping" ELSE "resolve"
\* where the branch on the attempt's diagnostics leads: the return with the
\* status Failed, the select, or the call of getActualCommandStatus
AttemptBranch(diag) ==
    IF HasError(diag) THEN "returned"
    ELSE IF WarningsCount(diag) > 0 THEN "sleeping"
    ELSE "resolve"

\* one iteration of the loop up to the select: the check of ctx.Err(), the
\* call of PollCommandInvocation and the branch on its diagnostics
PollAttempt ==
    /\ pc = "loop"
    /\ attempt < maxAttempts
    /\ ctxErr = "nil"
    /\ \E d \in QueryDurations, o \in PollOutcomes :
          LET diag == o.diag
          IN  /\ QueryFails(d) => o.observed.kind = "error"
              /\ observed' = o.observed
              /\ attemptDiag' = diag
              /\ elapsed' = QueryEnd(d)
              /\ queryLog' = Append(queryLog, "poll")
              /\ pc' = AttemptBranch(diag)
              /\ IF AttemptBranch(diag) = "returned"
                 THEN /\ data' = [data EXCEPT !.status = "Failed"]
                      /\ diagnostics' = ReturnedOnFailure(diagnostics, diag)
                 ELSE UNCHANGED <<data, diagnostics>>
    /\ UNCHANGED <<op, state, opError, attempt, backoff, cancelled,
                   delays, sendCalls, commands, pureVars>>

\* the check of ctx.Err() at the head of the loop finds the context done
LoopCancelled ==
    /\ pc = "loop"
    /\ attempt < maxAttempts
    /\ ctxErr # "nil"
    /\ diagnostics' = <<Diag("error", "Operation Cancelled", 0, 0)>>
    /\ pc' = "returned"
    /\ UNCHANGED <<op, state, opError, data, attempt, backoff, elapsed, cancelled,
                   attemptDiag, observed, queryLog, delays, sendCalls, commands,
                   pureVars>>

\* a variant of NextBackoff with a ceiling of 60 seconds
NextBackoff_Ceiling60(b) == IF b * 2 > 60 THEN 60 ELSE b * 2
\* a variant of NextBackoff that doubles without the ceiling
NextBackoff_NoCeiling(b) == b * 2
\* backoff *= 2, then the ceiling of 30 seconds
NextBackoff(b) == IF b * 2 > MaxBackoff THEN MaxBackoff ELSE b * 2

\* a variant of TimerFires that does not count the attempt
TimerFires_NoIncrement ==
    /\ pc = "sleeping"
    /\ ctxErr = "nil"
    /\ elapsed + backoff <= createTimeout
    /\ elapsed' = elapsed + backoff
    /\ delays' = Append(delays, backoff)
    /\ backoff' = NextBackoff(backoff)
    /\ attempt' = attempt
    /\ attemptDiag' = <<>>
    /\ observed' = NoObservation
    /\ pc' = "loop"
    /\ UNCHANGED <<op, state, opError, data, diagnostics, cancelled, queryLog,
                   sendCalls, commands, pureVars>>
\* case <-time.After(backoff) of the select
TimerFires ==
    /\ pc = "sleeping"
    /\ ctxErr = "nil"
    /\ elapsed + backoff <= createTimeout
    /\ elapsed' = elapsed + backoff
    /\ delays' = Append(delays, backoff)
    /\ backoff' = NextBackoff(backoff)
    /\ attempt' = attempt + 1
    /\ attemptDiag' = <<>>
    /\ observed' = NoObservation
    /\ pc' = "loop"
    /\ UNCHANGED <<op, state, opError, data, diagnostics, cancelled, queryLog,
                   sendCalls, commands, pureVars>>

\* case <-ctx.Done() of the select
SleepInterrupted ==
    /\ pc = "sleeping"
    /\ \/ ctxErr # "nil"
       \/ elapsed + backoff >= createTimeout
    /\ elapsed' = IF ctxErr # "nil" THEN elapsed ELSE createTimeout
    /\ diagnostics' =
          IF cancelled
          THEN <<Diag("error", "Operation Cancelled", 0, 0)>>
          ELSE <<Diag("error", "Timeout while waiting for SSM Command to complete", 0, 0)>>
    /\ pc' = "returned"
    /\ UNCHANGED <<op, state, opError, data, attempt, backoff, cancelled,
                   attemptDiag, observed, queryLog, delays, sendCalls, commands,
                   pureVars>>

\* getActualCommandStatus and the return that follows it
Resolve ==
    /\ \E d \in QueryDurations, o \in ResolveOutcomes :
          /\ QueryFails(d) => o.observed.kind = "error"
          /\ observed' = o.observed
          /\ data' = [data EXCEPT !.status = o.status]
          /\ elapsed' = QueryEnd(d)
    /\ queryLog' = Append(queryLog, "resolve")
    /\ pc' = "returned"
    /\ UNCHANGED <<op, state, opError, diagnostics, attempt, backoff, cancelled,
                   attemptDiag, delays, sendCalls, commands, pureVars>>

\* the else branch of the loop body: the poll came back clean
ResolveAfterPoll ==
    /\ pc = "resolve"
    /\ Resolve

\* a variant of ResolveAfterMaxAttempts that returns without the last call
ResolveAfterMaxAttempts_Skipped ==
    /\ pc = "loop"
    /\ attempt >= maxAttempts
    /\ pc' = "returned"
    /\ UNCHANGED <<op, state, opError, data, diagnostics, cycleVars, sendCalls,
                   commands, pureVars>>
\* after the loop: maxAttempts attempts were made
ResolveAfterMaxAttempts ==
    /\ pc = "loop"
    /\ attempt >= maxAttempts
    /\ Resolve

\* the parent context is cancelled while the cycle runs
CancelContext ==
    /\ pc \in {"loop", "sleeping", "resolve"}
    /\ ctxErr = "nil"
    /\ cancelled' = TRUE
    /\ UNCHANGED <<pc, op, state, opError, data, diagnostics, attempt, backoff,
                   elapsed, attemptDiag, observed, queryLog, delays, sendCalls,
                   commands, pureVars>>

\* ------------------------------------------------- the end of Create/Update
\* a variant of Complete that sets the state whatever the diagnostics
Complete_PersistsOnError ==
    /\ pc = "returned"
    /\ opError' = HasError(diagnostics)
    /\ state' = [exists |-> TRUE, command_id |-> data.command_id,
                 status |-> data.status, triggers |-> data.triggers]
    /\ pc' = "idle"
    /\ UNCHANGED <<op, data, diagnostics, cycleVars, sendCalls, commands, pureVars>>
\* diag.HasError() after executeSSMCommand, normalizeOptionalValues, State.Set
Complete ==
    /\ pc = "returned"
    /\ IF HasError(diagnostics)
       THEN /\ opError' = TRUE
            /\ UNCHANGED state
       ELSE /\ opError' = FALSE
            /\ state' = [exists |-> TRUE, command_id |-> data.command_id,
                         status |-> data.status, triggers |-> data.triggers]
    /\ pc' = "idle"
    /\ UNCHANGED <<op, data, diagnostics, cycleVars, sendCalls, commands, pureVars>>

\* ----------------------------------------------------------- Read, Delete
\* a variant of NoCycle in which the status is queried once
NoCycle_WithQuery ==
    /\ opError' = FALSE
    /\ sendCalls' = 0
    /\ diagnostics' = <<>>
    /\ attempt' = 0
    /\ backoff' = InitialBackoff
    /\ elapsed' = 0
    /\ cancelled' = FALSE
    /\ attemptDiag' = <<>>
    /\ observed' = NoObservation
    /\ queryLog' = <<"resolve">>
    /\ delays' = <<>>
    /\ UNCHANGED <<pc, commands, pureVars>>
\* Read and Delete run no cycle
NoCycle ==
    /\ opError' = FALSE
    /\ sendCalls' = 0
    /\ diagnostics' = <<>>
    /\ attempt' = 0
    /\ backoff' = InitialBackoff
    /\ elapsed' = 0
    /\ cancelled' = FALSE
    /\ attemptDiag' = <<>>
    /\ observed' = NoObservation
    /\ queryLog' = <<>>
    /\ delays' = <<>>
    /\ UNCHANGED <<pc, commands, pureVars>>

Read ==
    /\ pc = "idle"
    /\ state.exists
    /\ op' = "Read"
    /\ data' = [command_id |-> state.command_id, status |-> state.status,
                triggers |-> state.triggers]
    /\ state' = state
    /\ NoCycle

Delete ==
    /\ pc = "idle"
    /\ state.exists
    /\ op' = "Delete"
    /\ data' = [command_id |-> 0, status |-> "", triggers |-> 1]
    /\ state' = NoState
    /\ NoCycle

Next ==
    \/ Create
    \/ Update
    \/ PollAttempt
    \/ LoopCancelled
    \/ TimerFires
    \/ SleepInterrupted
    \/ ResolveAfterPoll
    \/ ResolveAfterMaxAttempts
    \/ CancelContext
    \/ Complete
    \/ Read
    \/ Delete

Spec == Init /\ [][Next]_vars

\* the steps of the handler that runs a cycle
CycleStep ==
    \/ PollAttempt
    \/ LoopCancelled
    \/ TimerFires
    \/ SleepInterrupted
    \/ ResolveAfterPoll
    \/ ResolveAfterMaxAttempts
    \/ Complete

\* ------------------------------------- getActualCommandStatus on its own
\* the function applied to one answer of the API, whatever the answer
InitStatus ==
    /\ InitCycle
    /\ state = NoState
    /\ answer \in Responses
    /\ result = "none"
    /\ config = NoConfig
    /\ built = NotBuilt
    /\ expirationDate = NoExpirationDate
    /\ validation = NotValidated
    /\ secretExists = FALSE
    /\ InitActivation
    /\ InitBuild

ApplyStatus ==
    /\ result = "none"
    /\ result' = getActualCommandStatus(answer)
    /\ UNCHANGED <<sendCommandVars, answer, config, built, expirationDate,
                   validation, activationVars, buildVars>>

NextStatus == ApplyStatus

SpecStatus == InitStatus /\ [][NextStatus]_vars

\* ------------------------------------ validateAndBuildTargets on its own
\* the function applied to one configuration, whatever the configuration
InitTargets ==
    /\ InitCycle
    /\ state = NoState
    /\ answer = QueryError
    /\ result = "none"
    /\ config \in FullConfigs
    /\ built = NotBuilt
    /\ expirationDate = NoExpirationDate
    /\ validation = NotValidated
    /\ secretExists = FALSE
    /\ InitActivation
    /\ InitBuild

ApplyTargets ==
    /\ ~built.done
    /\ built' = IF validateAndBuildTargets(ConfigShape(config))
                THEN [done |-> TRUE, ok |-> TRUE, targets |-> BuildTargets(config)]
                ELSE [done |-> TRUE, ok |-> FALSE, targets |-> <<>>]
    /\ UNCHANGED <<sendCommandVars, answer, result, config, expirationDate,
                   validation, activationVars, buildVars>>

NextTargets == ApplyTargets

SpecTargets == InitTargets /\ [][NextTargets]_vars

\* ------------------------------------------- int64 values of the plan
\* Go's int64 is kept at its width: a value is its four 16 bit limbs in two's
\* complement, least significant first, and arithmetic wraps modulo 2^64.
LimbBase == 65536
SignLimb == 32768
Limbs == 0..(LimbBase - 1)

\* the int64 of an integer n with -2^31 < n < 2^31
Int64Of(n) ==
    IF n >= 0
    THEN <<n % LimbBase, n \div LimbBase, 0, 0>>
    ELSE <<(LimbBase - 1) - ((-n - 1) % LimbBase),
           (LimbBase - 1) - ((-n - 1) \div LimbBase),
           LimbBase - 1, LimbBase - 1>>

\* x < 0
Int64Negative(x) == x[4] >= SignLimb

\* x * c for a constant 0 <= c < 2^15, as Go computes it
Int64Times(x, c) ==
    LET p1 == x[1] * c
        p2 == x[2] * c + (p1 \div LimbBase)
        p3 == x[3] * c + (p2 \div LimbBase)
        p4 == x[4] * c + (p3 \div LimbBase)
    IN  <<p1 % LimbBase, p2 % LimbBase, p3 % LimbBase, p4 % LimbBase>>

\* x + y, as Go computes it
Int64Plus(x, y) ==
    LET s1 == x[1] + y[1]
        s2 == x[2] + y[2] + (s1 \div LimbBase)
        s3 == x[3] + y[3] + (s2 \div LimbBase)
        s4 == x[4] + y[4] + (s3 \div LimbBase)
    IN  <<s1 % LimbBase, s2 % LimbBase, s3 % LimbBase, s4 % LimbBase>>

\* x > y as unsigned numbers
LimbsGreater(x, y) ==
    \E i \in 1..4 : x[i] > y[i] /\ \A j \in (i + 1)..4 : x[j] = y[j]

\* x > y, signed
Int64Greater(x, y) ==
    IF Int64Negative(x) # Int64Negative(y)
    THEN Int64Negative(y)
    ELSE LimbsGreater(x, y)

\* ------------------------------------------------ validateExpirationDate
DefaultDays == 30
maxMinutes == 43200

\* a null attribute, and an attribute with a value
NullInt64 == [null |-> TRUE, value |-> Int64Of(0)]
Int64Value(x) == [null |-> FALSE, value |-> x]

\* the least day counts whose product with 24 * 60 passes 2^63 and 2^64
DaysPastInt64 == <<27671, 5825, 49516, 22>>
DaysPastUint64 == <<55342, 11650, 33496, 45>>

DayValues ==
    {NullInt64, Int64Value(DaysPastInt64), Int64Value(DaysPastUint64)}
        \cup {Int64Value(Int64Of(n)) : n \in {-1, 0, 1, 29, 30, 31}}
HourValues == {NullInt64} \cup {Int64Value(Int64Of(n)) : n \in {-1, 0, 1, 24, 721}}
MinuteValues == {NullInt64} \cup {Int64Value(Int64Of(n)) : n \in {-1, 0, 1, 60}}

ExpirationDates ==
    {NoExpirationDate} \cup
    {[present |-> TRUE, days |-> d, hours |-> h, minutes |-> m] :
        d \in DayValues, h \in HourValues, m \in MinuteValues}

InvalidExpiration(detail) ==
    Diag("error", "Invalid expiration_date configuration", detail, "")

\* the value of an attribute, or its default
ValueOr(attr, default) == IF attr.null THEN Int64Of(default) ELSE attr.value

validateExpirationDate(e) ==
    IF ~e.present THEN <<>>
    ELSE
      LET days == ValueOr(e.days, DefaultDays)
          hours == ValueOr(e.hours, 0)
          minutes == ValueOr(e.minutes, 0)
          totalMinutes ==
              Int64Plus(Int64Plus(Int64Times(Int64Times(days, 24), 60),
                                  Int64Times(hours, 60)),
                        minutes)
      IN  (IF Int64Negative(days) THEN <<InvalidExpiration("days")>> ELSE <<>>)
          \o (IF Int64Negative(hours) THEN <<InvalidExpiration("hours")>> ELSE <<>>)
          \o (IF Int64Negative(minutes) THEN <<InvalidExpiration("minutes")>> ELSE <<>>)
          \o (IF Int64Greater(totalMinutes, Int64Of(maxMinutes))
              THEN <<InvalidExpiration("total")>> ELSE <<>>)

\* ------------------------------------- validateExpirationDate on its own
\* the function applied to one expiration_date block, whatever the block
InitExpiration ==
    /\ InitCycle
    /\ state = NoState
    /\ answer = QueryError
    /\ result = "none"
    /\ config = NoConfig
    /\ built = NotBuilt
    /\ expirationDate \in ExpirationDates
    /\ validation = NotValidated
    /\ secretExists = FALSE
    /\ InitActivation
    /\ InitBuild

ApplyExpiration ==
    /\ ~validation.done
    /\ validation' = [done |-> TRUE, diags |-> validateExpirationDate(expirationDate)]
    /\ UNCHANGED <<sendCommandVars, answer, result, config, built, expirationDate,
                   activationVars, buildVars>>

NextExpiration == ApplyExpiration

SpecExpiration == InitExpiration /\ [][NextExpiration]_vars

\* ---------------------------------------------------- test_ssm_activation
\* Activations are numbered in the order CreateActivation makes them; the
\* number stands for the ActivationId and for the ActivationCode of the
\* activation, and 0 for the empty string.
\*
\* the AWS API calls of a handler, in the order the handler makes them:
\* `calls` so far, `err` once the handler has an error to return (`invalid`
\* when the error is the one of a validation), what the calls made of the
\* secret and of the activation of the state, and the activation created
StartRun ==
    [calls |-> <<>>, err |-> FALSE, invalid |-> FALSE, secret |-> secretExists,
     value |-> secretValue, activation |-> activation, created |-> 0,
     count |-> activations]

\* the positions, among the calls of one handler, of the calls that fail for
\* a reason of their own (credentials, permissions, network)
FailedCalls == SUBSET (1..MaxApiCalls)

\* one API call: it fails when the service refuses it (~ok) or when it is one
\* of the failed calls; a handler that has an error makes no further call
ApiCall(run, name, ok, failed) ==
    IF run.err THEN run
    ELSE [run EXCEPT !.calls = Append(@, name),
                     !.err = ~ok \/ (Len(run.calls) + 1) \in failed]

validateSecretExists(run, failed) ==
    LET c == ApiCall(run, "DescribeSecret", run.secret, failed)
    IN  IF ~run.err /\ c.err THEN [c EXCEPT !.invalid = TRUE] ELSE c

CreateActivation(run, failed) ==
    LET c == ApiCall(run, "CreateActivation", TRUE, failed)
    IN  IF c.err THEN c
        ELSE [c EXCEPT !.count = run.count + 1, !.created = run.count + 1]

deleteActivation(run, failed) ==
    LET c == ApiCall(run, "DeleteActivation", run.activation # "none", failed)
    IN  IF c.err THEN c ELSE [c EXCEPT !.activation = "none"]

deleteSecret(run, failed) ==
    LET c == ApiCall(run, "DeleteSecret", TRUE, failed)
    IN  IF c.err THEN c ELSE [c EXCEPT !.secret = FALSE, !.value = 0]

\* PutSecretValue of the activation `id`, then DescribeSecret for the metadata
putSecretValue(run, id, failed) ==
    LET p == ApiCall(run, "PutSecretValue", run.secret, failed)
        w == IF p.err THEN p ELSE [p EXCEPT !.value = id]
    IN  ApiCall(w, "DescribeSecret", w.secret, failed)

\* the secret is created when managed is false
manageSecret_ManagedInverted(run, managed, isCreate, id, failed) ==
    IF run.err THEN run
    ELSE IF isCreate /\ ~managed
    THEN LET d == ApiCall(run, "DescribeSecret", run.secret, failed)
         IN  IF d.err
             THEN LET c == ApiCall([d EXCEPT !.err = FALSE], "CreateSecret",
                                   ~run.secret, failed)
                  IN  IF c.err THEN c ELSE [c EXCEPT !.secret = TRUE, !.value = id]
             ELSE putSecretValue(d, id, failed)
    ELSE putSecretValue(run, id, failed)

\* manageSecret with data.ActivationId = data.ActivationCode = id
manageSecret(run, managed, isCreate, id, failed) ==
    IF run.err THEN run
    ELSE IF isCreate /\ managed
    THEN LET d == ApiCall(run, "DescribeSecret", run.secret, failed)
         IN  IF d.err
             THEN LET c == ApiCall([d EXCEPT !.err = FALSE], "CreateSecret",
                                   ~run.secret, failed)
                  IN  IF c.err THEN c ELSE [c EXCEPT !.secret = TRUE, !.value = id]
             ELSE putSecretValue(d, id, failed)
    ELSE putSecretValue(run, id, failed)

\* the expiration_date blocks of a plan
PlannedExpirationDates ==
    {NoExpirationDate,
     [present |-> TRUE, days |-> NullInt64, hours |-> NullInt64, minutes |-> NullInt64],
     [present |-> TRUE, days |-> Int64Value(Int64Of(31)), hours |-> NullInt64,
      minutes |-> NullInt64],
     [present |-> TRUE, days |-> Int64Value(DaysPastInt64), hours |-> NullInt64,
      minutes |-> NullInt64]}

\* Create from the check of the secret to manageSecret, which Update repeats
\* when it recreates the activation
CreateActivationAndSecret(run, managed, expiration, failed) ==
    LET checked == IF managed THEN run ELSE validateSecretExists(run, failed)
        validated ==
            IF checked.err THEN checked
            ELSE IF HasError(validateExpirationDate(expiration))
            THEN [checked EXCEPT !.err = TRUE, !.invalid = TRUE]
            ELSE checked
        created == CreateActivation(validated, failed)
    IN  manageSecret(created, managed, TRUE, created.created, failed)

\* a variant of NewActivationState that keeps expired = true
NewActivationState_Expired(managed, id) ==
    [exists |-> TRUE, managed |-> managed, activation_id |-> id,
     activation_code |-> id, expired |-> TRUE]
\* the model after CreateActivation: the id and the code of the new
\* activation, expired = false
NewActivationState(managed, id) ==
    [exists |-> TRUE, managed |-> managed, activation_id |-> id,
     activation_code |-> id, expired |-> FALSE]

SecretWrites == {"CreateSecret", "PutSecretValue", "DeleteSecret"}

\* the end of a handler: what it leaves in AWS and in the state
ActivationOperation(name, managed, changed, run, newState) ==
    /\ run.count <= MaxActivations
    /\ secretExists' = run.secret
    /\ secretValue' = run.value
    /\ activations' = run.count
    /\ activation' = IF /\ newState.exists
                        /\ run.created # 0
                        /\ newState.activation_id = run.created
                     THEN "active"
                     ELSE run.activation
    /\ apiCalls' = run.calls
    /\ activationOp' = [name |-> name, managed |-> managed,
                        managedBefore |-> activationState.managed,
                        changed |-> changed,
                        secretBefore |-> secretExists,
                        activationBefore |-> activation,
                        created |-> run.created,
                        error |-> run.err, invalid |-> run.invalid]
    /\ activationState' = newState
    /\ managedSeen' = (managedSeen \/ managed \/ activationState.managed)
    /\ secretCalls' = secretCalls \cup
           ({run.calls[i] : i \in 1..Len(run.calls)} \cap SecretWrites)
    /\ UNCHANGED <<sendCommandVars, answer, result, config, built, expirationDate,
                   validation, buildVars>>

ActivationCreate ==
    \E managed \in BOOLEAN, expiration \in PlannedExpirationDates,
       failed \in FailedCalls :
        /\ ~activationState.exists
        /\ LET run == CreateActivationAndSecret(StartRun, managed, expiration, failed)
           IN  ActivationOperation("Create", managed, TRUE, run,
                   IF run.err THEN activationState
                   ELSE NewActivationState(managed, run.created))

ActivationRead ==
    \E failed \in FailedCalls :
        /\ activationState.exists
        /\ LET described == ApiCall(StartRun, "DescribeActivations", TRUE, failed)
               created == CreateActivation(described, failed)
               renewed == manageSecret(created, activationState.managed, FALSE,
                                       created.created, failed)
               managed == activationState.managed
           IN  IF described.err
               THEN ActivationOperation("Read", managed, FALSE, described,
                                        activationState)
               ELSE IF described.activation = "none"
               THEN ActivationOperation("Read", managed, FALSE, described,
                                        NoActivationState)
               ELSE IF described.activation = "expired"
               THEN ActivationOperation("Read", managed, FALSE, renewed,
                        IF renewed.err THEN activationState
                        ELSE NewActivationState(managed, renewed.created))
               ELSE ActivationOperation("Read", managed, FALSE, described,
                        [activationState EXCEPT !.expired = FALSE])

\* `changed`: an attribute other than managed differs between plan and state.
\* Without recreation manageSecret runs before the computed values are taken
\* from the state: the plan's activation_id and activation_code are unknown,
\* and their ValueString() is the empty string.
ActivationUpdate ==
    \E managed \in BOOLEAN, changed \in BOOLEAN,
       expiration \in PlannedExpirationDates, failed \in FailedCalls :
        /\ activationState.exists
        /\ LET needsRecreation == changed \/ managed # activationState.managed
               deleted == deleteActivation(StartRun, failed)
               cleared == IF activationState.managed
                          THEN deleteSecret(deleted, failed)
                          ELSE deleted
               run == IF needsRecreation
                      THEN CreateActivationAndSecret(cleared, managed, expiration, failed)
                      ELSE manageSecret(StartRun, managed, FALSE, 0, failed)
           IN  ActivationOperation("Update", managed, changed, run,
                   IF run.err THEN activationState
                   ELSE IF needsRecreation
                   THEN NewActivationState(managed, run.created)
                   ELSE [activationState EXCEPT !.managed = managed])

ActivationDelete ==
    \E failed \in FailedCalls :
        /\ activationState.exists
        /\ LET deleted == deleteActivation(StartRun, failed)
               run == IF activationState.managed
                      THEN deleteSecret(deleted, failed)
                      ELSE deleted
           IN  ActivationOperation("Delete", activationState.managed, FALSE, run,
                   IF run.err THEN activationState ELSE NoActivationState)

\* the activation of the state reaches its expiration date
Expire ==
    /\ activation = "active"
    /\ activation' = "expired"
    /\ UNCHANGED <<sendCommandVars, answer, result, config, built, expirationDate,
                   validation, secretExists, secretValue, activations,
                   activationState, apiCalls, activationOp, managedSeen,
                   secretCalls, buildVars>>

InitActivationSpec ==
    /\ InitCycle
    /\ state = NoState
    /\ answer = QueryError
    /\ result = "none"
    /\ config = NoConfig
    /\ built = NotBuilt
    /\ expirationDate = NoExpirationDate
    /\ validation = NotValidated
    /\ secretExists \in BOOLEAN
    /\ InitActivation
    /\ InitBuild

NextActivation ==
    \/ ActivationCreate
    \/ ActivationRead
    \/ ActivationUpdate
    \/ ActivationDelete
    \/ Expire

SpecActivation == InitActivationSpec /\ [][NextActivation]_vars

\* ------------------------------------------------ codebuild_start_build
\* An environment variable is its type, "null" when the attribute is not
\* set; a variable is named by its position in the list.
EnvVarTypes == {"null", "PLAINTEXT", "PARAMETER_STORE", "SECRETS_MANAGER", "OTHER"}

RECURSIVE EnvVarListsOf(_)
EnvVarListsOf(n) ==
    IF n = 0 THEN {<<>>}
    ELSE {<<t>> \o rest : t \in EnvVarTypes, rest \in EnvVarListsOf(n - 1)}

EnvVarLists == UNION {EnvVarListsOf(n) : n \in 0..MaxEnvVars}

\* the variables validateEnvironmentVariables looks up: the switch has a case
\* for these two types only
NeedsLookup(envVars) ==
    {i \in 1..Len(envVars) : envVars[i] \in {"PARAMETER_STORE", "SECRETS_MANAGER"}}

\* the k-th variable, in the order of the list, of a set of variables
NthOf(positions, k) ==
    CHOOSE i \in positions : Cardinality({j \in positions : j < i}) = k - 1

\* the variables whose parameter or secret cannot be read
FailingLookups(envVars) == SUBSET NeedsLookup(envVars)

LookupCall(type) ==
    IF type = "PARAMETER_STORE" THEN "GetParameter" ELSE "DescribeSecret"

LookupError(type, i) ==
    IF type = "PARAMETER_STORE"
    THEN Diag("error", "Parameter Store validation failed", i, 0)
    ELSE Diag("error", "Secrets Manager validation failed", i, 0)

\* a variant of validateEnvironmentVariables that returns at the first
\* lookup that fails
validateEnvironmentVariables_StopsAtFirst(envVars, failing) ==
    LET failed == NeedsLookup(envVars) \cap failing
        first == IF failed = {} THEN Len(envVars) ELSE NthOf(failed, 1)
        lookups == {i \in NeedsLookup(envVars) : i <= first}
    IN  [calls |-> [k \in 1..Cardinality(lookups) |->
                        LookupCall(envVars[NthOf(lookups, k)])],
         diags |-> IF failed = {} THEN <<>>
                   ELSE <<LookupError(envVars[first], first)>>]

\* the loop of validateEnvironmentVariables: the calls it makes, one for each
\* variable to look up, and the diagnostics it returns, one error for each
\* lookup that failed, both in the order of the list
validateEnvironmentVariables(envVars, failing) ==
    LET lookups == NeedsLookup(envVars)
        failed == lookups \cap failing
    IN  [calls |-> [k \in 1..Cardinality(lookups) |->
                        LookupCall(envVars[NthOf(lookups, k)])],
         diags |-> [k \in 1..Cardinality(failed) |->
                        LookupError(envVars[NthOf(failed, k)], NthOf(failed, k))]]

\* the diagnostics of buildEnvironmentVariables: it returns at the first
\* variable whose type is none of the three
buildEnvironmentVariables(envVars) ==
    IF \E i \in 1..Len(envVars) : envVars[i] = "OTHER"
    THEN LET i == CHOOSE k \in 1..Len(envVars) :
                      /\ envVars[k] = "OTHER"
                      /\ \A j \in 1..(k - 1) : envVars[j] # "OTHER"
         IN  <<Diag("error", "Invalid environment variable type", i, 0)>>
    ELSE <<>>

\* the end of a handler of codebuild_start_build
BuildOperation(name, envVars, failing, changed, calls, diags, newState) ==
    /\ buildCalls' = calls
    /\ buildDiags' = diags
    /\ buildState' = newState
    /\ buildOp' = [name |-> name, envVars |-> envVars, failing |-> failing,
                   triggersChanged |-> changed, prior |-> buildState,
                   error |-> HasError(diags)]
    /\ UNCHANGED <<sendCommandVars, answer, result, config, built, expirationDate,
                   validation, activationVars>>

\* the validation, buildEnvironmentVariables, StartBuild and State.Set, which
\* Create and an Update whose triggers changed run alike
StartBuild(name, envVars, failing, trig, startOk) ==
    LET validationDiag == validateEnvironmentVariables(envVars, failing)
        diag == buildEnvironmentVariables(envVars)
    IN  IF HasError(validationDiag.diags)
        THEN BuildOperation(name, envVars, failing, TRUE, validationDiag.calls,
                            validationDiag.diags, buildState)
        ELSE IF HasError(diag)
        THEN BuildOperation(name, envVars, failing, TRUE, validationDiag.calls,
                            diag, buildState)
        ELSE IF ~startOk
        THEN BuildOperation(name, envVars, failing, TRUE,
                            Append(validationDiag.calls, "StartBuild"),
                            <<Diag("error", "Unable to start CodeBuild project", 0, 0)>>,
                            buildState)
        ELSE BuildOperation(name, envVars, failing, TRUE,
                            Append(validationDiag.calls, "StartBuild"), <<>>,
                            [exists |-> TRUE, triggers |-> trig])

BuildCreate ==
    \E envVars \in EnvVarLists, trig \in Triggers, startOk \in BOOLEAN :
      \E failing \in FailingLookups(envVars) :
        /\ ~buildState.exists
        /\ StartBuild("Create", envVars, failing, trig, startOk)

BuildUpdate ==
    \E envVars \in EnvVarLists, trig \in Triggers, startOk \in BOOLEAN :
      \E failing \in FailingLookups(envVars) :
        /\ buildState.exists
        /\ IF trig # buildState.triggers
           THEN StartBuild("Update", envVars, failing, trig, startOk)
           ELSE BuildOperation("Update", envVars, failing, FALSE, <<>>, <<>>,
                               buildState)

BuildRead ==
    /\ buildState.exists
    /\ BuildOperation("Read", <<>>, {}, FALSE, <<>>, <<>>, buildState)

BuildDelete ==
    /\ buildState.exists
    /\ BuildOperation("Delete", <<>>, {}, FALSE, <<>>, <<>>, NoBuildState)

InitBuildSpec ==
    /\ InitCycle
    /\ state = NoState
    /\ answer = QueryError
    /\ result = "none"
    /\ config = NoConfig
    /\ built = NotBuilt
    /\ expirationDate = NoExpirationDate
    /\ validation = NotValidated
    /\ secretExists = FALSE
    /\ InitActivation
    /\ InitBuild

NextBuild ==
    \/ BuildCreate
    \/ BuildUpdate
    \/ BuildRead
    \/ BuildDelete

SpecBuild == InitBuildSpec /\ [][NextBuild]_vars

\* ================================================================ claims
\* the cycle of a Create or Update that got past SendCommand has ended
CycleEnded ==
    \/ pc = "returned"
    \/ pc = "idle" /\ op \in {"Create", "Update"} /\ sendCalls = 1 /\ data.command_id # 0

LastQueryIs(kind) == Len(queryLog) > 0 /\ queryLog[Len(queryLog)] = kind

\* the last query was the Poller's and `observed` is what it showed
PollObserved == LastQueryIs("poll") /\ observed.kind = "list"

\* target i of the observation failed: its coarse status is a terminal
\* failure or one of its plugins failed
TargetFailed(i) ==
    \/ observed.invocations[i].status = "terminal-failure"
    \/ \E j \in 1..Len(observed.invocations[i].plugins) :
          observed.invocations[i].plugins[j] = "failure"

\* every target of the observation, and every plugin, shows success
AllSuccess(obs) ==
    /\ obs.kind = "list"
    /\ Len(obs.invocations) > 0
    /\ \A i \in 1..Len(obs.invocations) :
          /\ obs.invocations[i].status = "success"
          /\ \A j \in 1..Len(obs.invocations[i].plugins) :
                obs.invocations[i].plugins[j] = "success"

\* ---------------------------------------------------------------------- C1
\* one target in terminal failure and another still in progress in the same poll
MixedObserved ==
    /\ PollObserved
    /\ \E i, k \in 1..Len(observed.invocations) :
          /\ i # k
          /\ observed.invocations[i].status = "terminal-failure"
          /\ observed.invocations[k].status = "in-progress"

\* C1: when one poll shows a target in terminal failure and another target
\* still in progress, the attempt is a has-failure: the attempt's diagnostics
\* hold an error, polling has stopped (no sleep follows the attempt, no
\* further poll query, no resolver query) and the final status is Failed.
C1_MixedIsHasFailure ==
    MixedObserved =>
        /\ HasError(attemptDiag)
        /\ pc \in {"returned", "idle"}
        /\ data.status = "Failed"
        /\ PollQueries = attempt + 1
        /\ Len(delays) = attempt
        /\ ResolverQueries = 0

C1_Witness ==
    /\ MixedObserved
    /\ pc = "returned"
    /\ attempt = 2
    /\ data.status = "Failed"

RuleOf(inv) ==
    IF \E j \in 1..Len(inv.plugins) : inv.plugins[j] # "Success" THEN "Failed"
    ELSE IF inv.status \in {"Success", "Failed", "TimedOut", "Cancelled"} THEN inv.status
    ELSE "none"

\* the precedence evaluated target by target in list order, stopping at the
\* first target that matches a rule
RECURSIVE ScanTargets(_)
ScanTargets(invs) ==
    IF invs = <<>> THEN "Unknown"
    ELSE IF RuleOf(Head(invs)) # "none" THEN RuleOf(Head(invs))
    ELSE ScanTargets(Tail(invs))

\* C3: for every list the API returns, the resolver's result is the result of
\* the precedence (plugin not success, then the coarse status Success,
\* Failed, TimedOut, Cancelled) evaluated target by target in list order and
\* stopped at the first target that matches a rule; it is Unknown when no
\* target of the whole list matches a rule or the list is empty.
C3_ScanStopsAtFirstMatch ==
    (result # "none" /\ ~answer.err) => result = ScanTargets(answer.invocations)

\* ---------------------------------------------------------------------- C4
\* the target carries a signal other than success
NonSuccessSignal(inv) ==
    \/ inv.status # "Success"
    \/ \E j \in 1..Len(inv.plugins) : inv.plugins[j] # "Success"

\* the classification of a target's signal
SignalOf(inv) == IF RuleOf(inv) = "none" THEN "Unknown" ELSE RuleOf(inv)

FirstSignal(invs) ==
    CHOOSE i \in 1..Len(invs) :
        /\ NonSuccessSignal(invs[i])
        /\ \A k \in 1..(i - 1) : ~NonSuccessSignal(invs[k])

\* C4: when the record set the resolver reads holds a signal other than
\* success on any target, the result is not Success: it is the classification
\* of the first such signal of the set; it is Unknown when the set is empty.
C4_AnySignalIsReported ==
    (result # "none" /\ ~answer.err) =>
        /\ Len(answer.invocations) = 0 => result = "Unknown"
        /\ (\E i \in 1..Len(answer.invocations) : NonSuccessSignal(answer.invocations[i])) =>
              /\ result # "Success"
              /\ result = SignalOf(answer.invocations[FirstSignal(answer.invocations)])

\* ---------------------------------------------------------------------- C5
Min(a, b) == IF a < b THEN a ELSE b

RECURSIVE Pow2(_)
Pow2(k) == IF k = 0 THEN 1 ELSE 2 * Pow2(k - 1)

\* the sleeps after n attempts still in progress: min(2^k, 30) after the
\* (k+1)-th one
BackoffSchedule(n) == [k \in 1..n |-> Min(Pow2(k - 1), 30)]

\* C5: when the poll of attempt N+1 (N < 10 attempts still in progress before
\* it) shows every target and plugin in success, and the resolver reads the
\* same, the cycle has made exactly N+1 poll queries, has slept
\* min(2^k, 30) seconds after the (k+1)-th attempt still in progress, and its
\* final status is Success.
C5_SuccessAfterInProgress ==
    [][(/\ pc = "resolve"
        /\ AllSuccess(observed)
        /\ pc' = "returned"
        /\ observed' = observed)
       => /\ attempt < maxAttempts
          /\ PollQueries' = attempt + 1
          /\ delays' = BackoffSchedule(attempt)
          /\ ResolverQueries' = 1
          /\ diagnostics' = <<>>
          /\ data'.status = "Success"]_vars

C5_Witness ==
    /\ pc = "returned"
    /\ attempt = 3
    /\ delays = <<1, 2, 4>>
    /\ PollQueries = 4
    /\ LastQueryIs("resolve")
    /\ AllSuccess(observed)
    /\ data.status = "Success"

\* ---------------------------------------------------------------------- C6
EmptyObserved == PollObserved /\ Len(observed.invocations) = 0

\* C6: a poll that returns zero records is an attempt still in progress: its
\* diagnostics hold a warning and no error, the backoff sleep follows it, and
\* when the sleep ends exactly one attempt has been consumed.
C6_NoRecordsIsInProgress ==
    [][/\ (pc = "loop" /\ EmptyObserved')
          => /\ pc' = "sleeping"
             /\ ~HasError(attemptDiag')
             /\ WarningsCount(attemptDiag') > 0
             /\ PollQueries' = attempt' + 1
             /\ attempt' = attempt
             /\ data' = data
             /\ diagnostics' = <<>>
       /\ (pc = "sleeping" /\ EmptyObserved /\ pc' = "loop")
          => /\ attempt' = attempt + 1
             /\ delays' = Append(delays, backoff)
             /\ PollQueries' = PollQueries]_vars

C6_Witness ==
    /\ pc = "sleeping"
    /\ EmptyObserved
    /\ attempt = 1
    /\ delays = <<1>>

\* ---------------------------------------------------------------------- C7
TimeoutReported ==
    \E k \in 1..Len(diagnostics) :
        diagnostics[k].summary = "Timeout while waiting for SSM Command to complete"

SingleSuccess(obs) == AllSuccess(obs) /\ Len(obs.invocations) = 1

\* C8: for a single target that the first status query shows in success (and
\* the resolver's query too), the cycle is exactly one SendCommand, one poll
\* query, then the resolver's single query, without a sleep, and the
\* persisted status is Success.
C8_SingleTargetSuccess ==
    [][/\ (/\ pc = "resolve"
           /\ attempt = 0
           /\ SingleSuccess(observed)
           /\ pc' = "returned"
           /\ observed' = observed)
          => /\ sendCalls' = 1
             /\ queryLog' = <<"poll", "resolve">>
             /\ delays' = <<>>
             /\ diagnostics' = <<>>
             /\ data'.status = "Success"
       /\ (/\ pc = "returned"
           /\ queryLog = <<"poll", "resolve">>
           /\ SingleSuccess(observed)
           /\ data.status = "Success"
           /\ pc' = "idle")
          => /\ ~opError'
             /\ state'.exists
             /\ state'.command_id = data.command_id
             /\ state'.status = "Success"]_vars

C8_Witness ==
    /\ pc = "idle"
    /\ op = "Create"
    /\ sendCalls = 1
    /\ queryLog = <<"poll", "resolve">>
    /\ SingleSuccess(observed)
    /\ state.exists
    /\ state.status = "Success"

\* ---------------------------------------------------------------------- C9
\* the poll showed a target that failed
FailureObserved ==
    /\ PollObserved
    /\ \E i \in 1..Len(observed.invocations) : TargetFailed(i)

C10_FailureIsReported ==
    (FailureObserved /\ pc \in {"returned", "idle"}) =>
        \E k \in 1..Len(diagnostics) :
            /\ diagnostics[k].instance \in 1..Len(observed.invocations)
            /\ TargetFailed(diagnostics[k].instance)

\* --------------------------------------------------------------------- C11
\* the Poller's query failed
PollQueryFailed == LastQueryIs("poll") /\ observed.kind = "error"

\* C11: when a status query of the Poller fails, the cycle stops at once (no
\* sleep and no further poll query follow) and it ends in error: it returns
\* an error diagnostic, and the Create or Update does not complete as a
\* reconciliation with the status Failed.
C11_QueryErrorEndsInError ==
    PollQueryFailed =>
        /\ pc \in {"returned", "idle"}
        /\ PollQueries = attempt + 1
        /\ Len(delays) = attempt
        /\ HasError(diagnostics)
        /\ pc = "idle" => (opError /\ ~(state.exists /\ state.command_id = data.command_id))

\* --------------------------------------------------------------------- C12
CancelReported ==
    \E k \in 1..Len(diagnostics) : diagnostics[k].summary = "Operation Cancelled"

\* the cycle was ended because its context was done
EndedByContext == CycleEnded /\ (TimeoutReported \/ CancelReported)

\* C12: a cycle ended because its context is done is reported as a timeout
\* exactly when the deadline expired, and as "Operation Cancelled" only when
\* the context was cancelled for another reason, whether the end of the
\* context was found during a sleep or by the check before the next attempt.
C12_TimeoutIffDeadline ==
    EndedByContext =>
        /\ TimeoutReported <=> (~cancelled /\ elapsed >= createTimeout)
        /\ CancelReported => cancelled

\* --------------------------------------------------------------------- C13
ExactlyOne(a, b) == (a /\ ~b) \/ (~a /\ b)

ValidationErrorReported ==
    \E k \in 1..Len(diagnostics) : diagnostics[k].summary = "Validation Error"

\* C14: a Create, or an Update whose triggers changed, in which the
\* validation of the targets fails ends with an error, has made no
\* SendCommand call and no ListCommandInvocations call, and leaves the
\* persisted state as it was.
C14_ValidationFailureCallsNothing ==
    [][(pc = "idle" /\ ValidationErrorReported')
       => /\ op' \in {"Create", "Update"}
          /\ op' = "Update" => data'.triggers # state.triggers
          /\ pc' = "idle"
          /\ opError'
          /\ sendCalls' = 0
          /\ commands' = commands
          /\ queryLog' = <<>>
          /\ state' = state]_vars

C14_Witness ==
    /\ pc = "idle"
    /\ op = "Update"
    /\ ValidationErrorReported
    /\ opError
    /\ sendCalls = 0
    /\ state.exists

\* --------------------------------------------------------------------- C15
DispatchErrorReported ==
    \E k \in 1..Len(diagnostics) : diagnostics[k].summary = "Client Error"

\* C15: when SendCommand returns an error the operation ends in error
\* without any status query, of the Poller or of the Resolver, and the
\* Create or Update leaves the persisted state as it was.
C15_DispatchErrorQueriesNothing ==
    [][(pc = "idle" /\ DispatchErrorReported')
       => /\ op' \in {"Create", "Update"}
          /\ pc' = "idle"
          /\ opError'
          /\ sendCalls' = 1
          /\ queryLog' = <<>>
          /\ data'.command_id = 0
          /\ state' = state]_vars

C15_Witness ==
    /\ pc = "idle"
    /\ op = "Create"
    /\ DispatchErrorReported
    /\ opError
    /\ sendCalls = 1
    /\ ~state.exists

\* --------------------------------------------------------------------- C16
\* the step is an Update of an existing resource; data' holds its plan
UpdateStep == pc = "idle" /\ state.exists /\ op' = "Update"

C17_PersistedStatusIsFinal ==
    state.exists => (state.status \in FinalStatuses /\ state.status # "InProgress")

C17_Witness ==
    /\ pc = "idle"
    /\ op = "Create"
    /\ state.exists
    /\ state.command_id = data.command_id
    /\ state.status = "TimedOut"

Called(name) == \E i \in 1..Len(apiCalls) : apiCalls[i] = name

\* the call `name` of the operation last run succeeded: the handler went on
\* to a further call, or ended without error
Succeeded(name) ==
    /\ Called(name)
    /\ ~activationOp.error \/ apiCalls[Len(apiCalls)] # name

\* C19: test_ssm_activation.  While managed is false in every plan and state
\* of a sequence of Create, Read, Update and Delete, neither CreateSecret nor
\* DeleteSecret is ever called, and a Create with managed = false whose secret
\* does not exist fails without calling CreateActivation.  A Create with
\* managed = true that has created the activation calls CreateSecret when the
\* secret is absent, and the secret exists when that Create succeeds; a Delete
\* with managed = true whose DeleteActivation succeeded calls DeleteSecret,
\* and the secret is gone when that Delete succeeds.
C19_SecretFollowsManaged ==
    /\ ~managedSeen => secretCalls \subseteq {"PutSecretValue"}
    /\ (activationOp.name = "Create" /\ ~activationOp.managed
            /\ ~activationOp.secretBefore)
        => (activationOp.error /\ ~Called("CreateActivation")
            /\ ~activationState.exists)
    /\ (activationOp.name = "Create" /\ activationOp.managed
            /\ ~activationOp.secretBefore /\ Succeeded("CreateActivation"))
        => (Called("CreateSecret") /\ (~activationOp.error => secretExists))
    /\ (activationOp.name = "Delete" /\ activationOp.managed
            /\ Succeeded("DeleteActivation"))
        => (Called("DeleteSecret") /\ (~activationOp.error => ~secretExists))

\* a managed secret that a Create made has been deleted by a Delete
C19_Witness ==
    /\ activationOp.name = "Delete"
    /\ activationOp.managed
    /\ ~activationOp.error
    /\ Called("DeleteSecret")
    /\ "CreateSecret" \in secretCalls
    /\ ~secretExists

\* --------------------------------------------------------------------- C20
\* the number an int64 stands for, for the numbers below 2^15
SmallInt64(x) == ~Int64Negative(x) /\ x[2] = 0 /\ x[3] = 0 /\ x[4] = 0 /\ x[1] < SignLimb

\* days * 1440 + hours * 60 + minutes > 43200 over the integers, for three
\* numbers none of which is negative: a term above the limit decides alone,
\* and otherwise the three numbers are small enough to be added up
ExceedsThirtyDays(days, hours, minutes) ==
    \/ Int64Greater(days, Int64Of(DefaultDays))
    \/ Int64Greater(hours, Int64Of(720))
    \/ Int64Greater(minutes, Int64Of(maxMinutes))
    \/ /\ SmallInt64(days) /\ SmallInt64(hours)
       /\ ~Int64Negative(minutes) /\ minutes[3] = 0 /\ minutes[4] = 0
       /\ days[1] * 1440 + hours[1] * 60 + minutes[2] * LimbBase + minutes[1]
             > maxMinutes

\* what the expiration_date block asks for is out of range
OutOfRange(e) ==
    LET days == ValueOr(e.days, DefaultDays)
        hours == ValueOr(e.hours, 0)
        minutes == ValueOr(e.minutes, 0)
    IN  \/ Int64Negative(days)
        \/ Int64Negative(hours)
        \/ Int64Negative(minutes)
        \/ ExceedsThirtyDays(days, hours, minutes)

\* C20: when an expiration_date block is present, validateExpirationDate
\* reports an error exactly when days, hours or minutes is negative or
\* days * 1440 + hours * 60 + minutes exceeds 43200, an unset days counting
\* as 30 and unset hours and minutes as 0.
\* Violated: days * 24 * 60 wraps at 64 bits, so that a day count of
\* 6405119470038039 gives a negative total and passes.
C20_ErrorIffOutOfRange ==
    (validation.done /\ expirationDate.present)
        => (HasError(validation.diags) <=> OutOfRange(expirationDate))

\* --------------------------------------------------------------------- C21
\* the variables of the operation last run that need a lookup, and among
\* them those whose lookup failed
LookedUp ==
    {i \in 1..Len(buildOp.envVars) :
        buildOp.envVars[i] \in {"PARAMETER_STORE", "SECRETS_MANAGER"}}
FailedLookups == LookedUp \cap buildOp.failing

\* the lookups of the variables, in the order of the list
ExpectedLookups ==
    LET typed == SelectSeq(buildOp.envVars,
                           LAMBDA t : t \in {"PARAMETER_STORE", "SECRETS_MANAGER"})
    IN  [k \in 1..Len(typed) |->
            IF typed[k] = "PARAMETER_STORE" THEN "GetParameter" ELSE "DescribeSecret"]

\* C21: in Create, and in an Update whose triggers changed, of
\* codebuild_start_build every variable of type PARAMETER_STORE or
\* SECRETS_MANAGER is looked up, by GetParameter or DescribeSecret, before
\* StartBuild; when a lookup fails there is exactly one error for each
\* variable whose lookup failed, StartBuild is not called and the state is
\* left as it was.
C21_LookupsPrecedeStartBuild ==
    (buildOp.name \in {"Create", "Update"} /\ buildOp.triggersChanged)
        => /\ \/ buildCalls = ExpectedLookups
              \/ buildCalls = Append(ExpectedLookups, "StartBuild")
           /\ FailedLookups # {}
                => /\ buildOp.error
                   /\ Len(buildDiags) = Cardinality(FailedLookups)
                   /\ \A i \in FailedLookups :
                          Cardinality({k \in 1..Len(buildDiags) :
                              /\ buildDiags[k].severity = "error"
                              /\ buildDiags[k].instance = i}) = 1
                   /\ buildCalls = ExpectedLookups
                   /\ buildState = buildOp.prior

\* a Create with a parameter and a secret that both cannot be read
C21_Witness ==
    /\ buildOp.name = "Create"
    /\ buildOp.envVars = <<"PARAMETER_STORE", "SECRETS_MANAGER">>
    /\ buildOp.failing = {1, 2}
    /\ Len(buildDiags) = 2
    /\ buildCalls = <<"GetParameter", "DescribeSecret">>
    /\ ~buildState.exists

\* --------------------------------------------------------------------- C22
\* some target or plugin of the observation is still pending or in progress
SomeInProgress(obs) ==
    \E i \in 1..Len(obs.invocations) :
        \/ obs.invocations[i].status = "in-progress"
        \/ \E j \in 1..Len(obs.invocations[i].plugins) :
              obs.invocations[i].plugins[j] = "in-progress"

\* C22: PollCommandInvocation returns diagnostics without error and without
\* warning only when every target and every plugin shows success; when some
\* target or plugin is still pending or in progress and nothing has failed,
\* the diagnostics hold a warning and the caller goes to sleep.
\* Violated: a plugin pending or in progress under a target whose coarse
\* status is success clears allCompleted without adding a warning, so that
\* the diagnostics returned are empty and the caller resolves.
C22_CleanOnlyWhenAllSuccess ==
    PollObserved =>
        /\ (~HasError(attemptDiag) /\ WarningsCount(attemptDiag) = 0)
              => AllSuccess(observed)
        /\ (SomeInProgress(observed) /\ ~FailureObserved)
              => (WarningsCount(attemptDiag) > 0 /\ pc = "sleeping")

\* --------------------------------------------------------------------- C23
\* how far the handler has come in its cycle: the attempts made, then the
\* position in the iteration
CycleProgress ==
    IF pc = "idle" THEN 3 * maxAttempts + 3
    ELSE IF pc = "returned" THEN 3 * maxAttempts + 2
    ELSE 3 * attempt + (IF pc = "loop" THEN 0 ELSE 1)

\* C23: a cycle makes at most 10 queries of the Poller, at most 10 sleeps and
\* at most one query of the Status Resolver, and it ends: while it runs the
\* handler always has a step to take, and each step takes it further towards
\* its end.  After 10 attempts still in progress the resolver is queried
\* exactly once, after the 10th attempt, and the status it computes is the
\* one persisted.
C23_CycleIsBounded ==
    /\ [](/\ PollQueries <= maxAttempts
          /\ Len(delays) <= maxAttempts
          /\ ResolverQueries <= 1
          /\ attempt <= maxAttempts)
    /\ []((CycleEnded /\ attempt = maxAttempts)
            => /\ PollQueries = maxAttempts
               /\ Len(delays) = maxAttempts
               /\ ResolverQueries = 1
               /\ LastQueryIs("resolve")
               /\ \E o \in ResolveOutcomes :
                      o.observed = observed /\ o.status = data.status
               /\ pc = "idle" => (state.exists /\ state.status = data.status))
    /\ [](pc # "idle" => ENABLED CycleStep)
    /\ [][(pc # "idle" /\ cancelled' = cancelled)
            => CycleProgress' > CycleProgress]_vars

C23_Witness ==
    /\ pc = "idle"
    /\ op = "Update"
    /\ attempt = maxAttempts
    /\ PollQueries = maxAttempts
    /\ Len(delays) = maxAttempts
    /\ queryLog[Len(queryLog)] = "resolve"
    /\ state.command_id = CommandIdOf(1)
    /\ state.status = "Success"

\* --------------------------------------------------------------------- C24
\* the observation shows a terminal failure of a target or of a plugin
TerminalFailureShown(obs) ==
    /\ obs.kind = "list"
    /\ \E i \in 1..Len(obs.invocations) :
          \/ obs.invocations[i].status = "terminal-failure"
          \/ \E j \in 1..Len(obs.invocations[i].plugins) :
                obs.invocations[i].plugins[j] = "failure"

\* C24: a persisted status Failed implies that the status query which set it
\* returned a record showing a terminal failure; targets and plugins all
\* still in progress, and a status query that failed, never give Failed.
\* Violated: a failed query of the Poller ends the cycle with the status
\* Failed, and so does a plugin still in progress that the resolver reads.
C24_FailedMeansTerminalFailure ==
    (/\ pc = "idle"
     /\ op \in {"Create", "Update"}
     /\ sendCalls = 1
     /\ ~opError
     /\ state.status = "Failed")
        => TerminalFailureShown(observed)

\* --------------------------------------------------------------------- C25
\* C25: the status the Status Resolver computes is a status that
\* getActualCommandStatus gives for the answer to its own query, whatever the
\* Poller saw before; when its own query fails the status is Unknown and the
\* cycle returns no error, and the Create or Update persists that status.
C25_ResolverReadsItsOwnQuery ==
    [][/\ (pc \in {"resolve", "loop"} /\ pc' = "returned" /\ LastQueryIs("resolve")')
          => /\ \E o \in ResolveOutcomes :
                    o.observed = observed' /\ o.status = data'.status
             /\ observed'.kind = "error"
                    => (data'.status = "Unknown" /\ diagnostics' = <<>>)
             /\ ResolverQueries' = 1
       /\ (pc = "returned" /\ LastQueryIs("resolve") /\ pc' = "idle")
          => (~opError' /\ state'.exists /\ state'.status = data.status)]_vars

\* the Poller saw a clean command, the resolver's later query shows a target
\* that failed, and the status is the one of the later read
C25_Witness ==
    /\ pc = "returned"
    /\ attempt < maxAttempts
    /\ attemptDiag = <<>>
    /\ LastQueryIs("resolve")
    /\ observed.kind = "list"
    /\ Len(observed.invocations) > 0
    /\ observed.invocations[1].status = "terminal-failure"
    /\ data.status \in {"Failed", "TimedOut", "Cancelled"}

\* --------------------------------------------------------------------- C26
\* C26: a cycle that ends by the timeout or by the cancellation, after
\* SendCommand succeeded, returns an error and has made no query of the
\* Status Resolver; the Create or Update then ends in error without a further
\* call, and leaves the state as it was: neither the id of the command
\* dispatched nor a status reaches it.
C26_ContextEndPersistsNothing ==
    [][/\ (pc' = "returned" /\ (TimeoutReported' \/ CancelReported'))
          => /\ sendCalls' = 1
             /\ HasError(diagnostics')
             /\ ResolverQueries' = 0
             /\ queryLog' = queryLog
       /\ (pc = "returned" /\ (TimeoutReported \/ CancelReported) /\ pc' = "idle")
          => /\ opError'
             /\ state' = state
             /\ state.command_id # data.command_id
             /\ queryLog' = queryLog
             /\ commands' = commands]_vars

C26_Witness ==
    /\ pc = "idle"
    /\ op = "Create"
    /\ sendCalls = 1
    /\ TimeoutReported
    /\ opError
    /\ ~state.exists
    /\ data.command_id = CommandIdOf(1)

\* --------------------------------------------------------------------- C27
RECURSIVE SumSeq(_)
SumSeq(s) == IF Len(s) = 0 THEN 0 ELSE s[1] + SumSeq(Tail(s))

\* every status query of the cycle so far took no time
QueriesTookNoTime == elapsed = SumSeq(delays)

\* C27: the sleeps of a cycle of 10 attempts still in progress are 1, 2, 4,
\* 8, 16, 30, 30, 30, 30, 30 seconds, 181 seconds together; while the status
\* queries take no time and the context is not cancelled the elapsed time
\* stays at or below 181 seconds, below the 300 seconds of the timeout, and
\* the cycle does not end with the timeout error.
C27_SleepsStayBelowTimeout ==
    /\ []((pc # "idle" /\ Len(delays) = maxAttempts)
            => (delays = <<1, 2, 4, 8, 16, 30, 30, 30, 30, 30>>
                /\ SumSeq(delays) = 181))
    /\ []((pc # "idle" /\ sendCalls = 1 /\ QueriesTookNoTime /\ ~cancelled)
            => (elapsed <= 181 /\ elapsed < createTimeout /\ ~TimeoutReported))
    /\ [][(pc = "sleeping" /\ QueriesTookNoTime /\ ~cancelled /\ pc' # "sleeping")
            => (pc' = "loop" /\ ~TimeoutReported' /\ elapsed' <= 181)]_vars

C27_Witness ==
    /\ pc = "returned"
    /\ attempt = maxAttempts
    /\ QueriesTookNoTime
    /\ elapsed = 181
    /\ ~cancelled
    /\ LastQueryIs("resolve")
    /\ diagnostics = <<>>

\* --------------------------------------------------------------------- C28
CallCount(name) == Cardinality({i \in 1..Len(apiCalls) : apiCalls[i] = name})

\* the Read last run got the answer of DescribeActivations
ReadDescribed ==
    /\ activationOp.name = "Read"
    /\ Succeeded("DescribeActivations")

\* C28: Read of test_ssm_activation.  When the activation is reported as
\* expired, Read calls CreateActivation exactly once, and when it ends
\* without error the persisted activation_id and activation_code are those
\* of the new activation, the secret was written by PutSecretValue and holds
\* them, and the persisted expired is false.  When the activation is
\* reported as not expired, Read calls neither CreateActivation nor a write
\* of the secret.  When the activation does not exist any more, the resource
\* is removed from the state and nothing is created.
C28_ReadRenewsExpired ==
    /\ (ReadDescribed /\ activationOp.activationBefore = "expired")
        => /\ CallCount("CreateActivation") = 1
           /\ ~activationOp.error
                => /\ activationState.exists
                   /\ activationOp.created = activations
                   /\ activationState.activation_id = activationOp.created
                   /\ activationState.activation_code = activationOp.created
                   /\ ~activationState.expired
                   /\ CallCount("PutSecretValue") = 1
                   /\ secretValue = activationOp.created
    /\ (ReadDescribed /\ activationOp.activationBefore = "active")
        => /\ apiCalls = <<"DescribeActivations">>
           /\ activationOp.created = 0
           /\ ~activationOp.error
           /\ activationState.exists
           /\ ~activationState.expired
    /\ (ReadDescribed /\ activationOp.activationBefore = "none")
        => /\ apiCalls = <<"DescribeActivations">>
           /\ activationOp.created = 0
           /\ ~activationState.exists

\* a Read renewed the expired activation 1 by the activation 2
C28_Witness ==
    /\ ReadDescribed
    /\ activationOp.activationBefore = "expired"
    /\ ~activationOp.error
    /\ activationState.activation_id = 2
    /\ secretValue = 2
    /\ activation = "active"

\* --------------------------------------------------------------------- C29
\* C29: when an Update of test_ssm_activation fails in the validation of the
\* new configuration, nothing has been deleted: the activation and the
\* managed secret of the prior state still exist.
\* Violated: Update deletes the old activation, and the old secret when it
\* is managed, before it validates the new configuration.
C29_FailedValidationDeletesNothing ==
    (activationOp.name = "Update" /\ activationOp.error /\ activationOp.invalid)
        => /\ ~Called("DeleteActivation")
           /\ ~Called("DeleteSecret")
           /\ activation = activationOp.activationBefore
           /\ (activationOp.managedBefore /\ activationOp.secretBefore) => secretExists

\* --------------------------------------------------------------------- C30
\* C30: an Update of test_ssm_activation in which only managed (or
\* secret_name) changes calls neither DeleteActivation nor CreateActivation,
\* keeps activation_id and activation_code, and only writes the secret.
\* Violated: a difference of managed, like one of secret_name, sets
\* needsRecreation, and the activation is deleted and created anew.
C30_SecretChangeKeepsActivation ==
    [][(/\ activationState.exists
        /\ activationOp'.name = "Update"
        /\ ~activationOp'.changed
        /\ activationOp'.managed # activationState.managed
        /\ activationOp' # activationOp)
       => /\ \A i \in 1..Len(apiCalls') :
                 apiCalls'[i] \notin {"DeleteActivation", "CreateActivation"}
          /\ activationState'.activation_id = activationState.activation_id
          /\ activationState'.activation_code = activationState.activation_code]_vars

====
